---------------------------- MODULE Spec2Model ----------------------------
(***************************************************************************)
(* Model of src/server.js: an Express application that serves three tools  *)
(* (search_knowledge_base, get_customer_data, log_interaction) over a      *)
(* streaming session protocol (GET /sse, POST /messages) and over a direct *)
(* endpoint (POST /tool), with a diagnostic GET /health.                   *)
(*                                                                         *)
(* JavaScript values are records [t |-> <type>, v |-> <payload>].  Strings *)
(* are TLA+ strings, so toLowerCase, includes and template literals are    *)
(* computed character by character.  Node runs every callback to its first *)
(* await without interleaving, so each action is one such run.             *)
(***************************************************************************)
EXTENDS Integers, Sequences, FiniteSets, TLC

(***************************************************************************)
(* Bounds of the model.                                                    *)
(***************************************************************************)
\* GET /sse connections accepted in one behaviour.
MaxSessions == 2
\* Largest value of the millisecond clock.
MaxClock == 1
\* Fragments concatenated into one knowledge-base query.
MaxFragments == 2
\* Calls of logInteraction in one behaviour.
MaxTickets == 2

VARIABLES
  transports,   \* the session store: sessionId -> transport (line 115)
  sse,          \* every GET /sse request so far: sessionId -> its progress
  reply,        \* the last POST /messages or GET /health request, answered
  now,          \* Date.now()
  toolReq,      \* body of the last POST /tool request
  toolResp,     \* its answer
  toolAt,       \* the clock when it was answered
  toolStoreAt,  \* the keys of transports when it was answered
  toolAgain,    \* the same request was answered before under other keys
  ticketLog,    \* the "[Ticket Created]" lines written to the console, in order
  logCalls,     \* the number of calls of logInteraction so far
  mcpReq,       \* name and arguments of the last tool call on the MCP server
  mcpResp,      \* its result
  mcpAt,        \* the clock when it was made
  kbQuery,      \* argument of the last searchKnowledgeBase call
  kbResult      \* its return value

sessVars == <<transports, sse, reply>>
toolVars == <<now, toolReq, toolResp, toolAt, toolStoreAt, toolAgain, ticketLog, logCalls,
              mcpReq, mcpResp, mcpAt>>
mcpVars == <<mcpReq, mcpResp, mcpAt>>
kbVars == <<kbQuery, kbResult>>
vars == <<transports, sse, reply, now, toolReq, toolResp, toolAt,
          toolStoreAt, toolAgain, ticketLog, logCalls, mcpReq, mcpResp, mcpAt,
          kbQuery, kbResult>>

(***************************************************************************)
(* JavaScript values and the language operations the handlers apply.       *)
(***************************************************************************)
Undefined == [t |-> "undefined", v |-> ""]
Null == [t |-> "null", v |-> ""]
Str(s) == [t |-> "string", v |-> s]
\* A number, carried as its decimal numeral.
Num(numeral) == [t |-> "number", v |-> numeral]
Fn(fname) == [t |-> "function", v |-> fname]
Obj(fields) == [t |-> "object", v |-> fields]
\* The fields of {}.
NoFields == [k \in {} |-> ""]

\* ToBoolean, as applied by `||`, `if (x)` and `x ? a : b`.
Truthy(x) ==
  CASE x.t = "undefined" -> FALSE
    [] x.t = "null" -> FALSE
    [] x.t = "string" -> x.v # ""
    [] x.t = "number" -> x.v # "0"
    [] OTHER -> TRUE

\* a || b
OrElse(a, b) == IF Truthy(a) THEN a ELSE b

\* ToString, as applied by a template literal and by a property key.
ToStr(x) ==
  CASE x.t = "undefined" -> "undefined"
    [] x.t = "null" -> "null"
    [] x.t = "string" -> x.v
    [] x.t = "number" -> x.v
    [] x.t = "function" -> "function " \o x.v \o "() { [native code] }"
    [] OTHER -> "[object Object]"

\* What every object literal inherits: the properties of Object.prototype.
ObjectPrototype ==
  [constructor |-> Fn("Object"),
   toString |-> Fn("toString"),
   valueOf |-> Fn("valueOf"),
   hasOwnProperty |-> Fn("hasOwnProperty"),
   __proto__ |-> Obj(NoFields)]

\* obj[key] on an object literal `own`: the own property, else the inherited
\* one, else undefined.
GetProp(own, key) ==
  IF key \in DOMAIN own THEN own[key]
  ELSE IF key \in DOMAIN ObjectPrototype THEN ObjectPrototype[key]
  ELSE Undefined

LowerChar(c) ==
  CASE c = "A" -> "a" [] c = "B" -> "b" [] c = "C" -> "c" [] c = "D" -> "d"
    [] c = "E" -> "e" [] c = "F" -> "f" [] c = "G" -> "g" [] c = "H" -> "h"
    [] c = "I" -> "i" [] c = "J" -> "j" [] c = "K" -> "k" [] c = "L" -> "l"
    [] c = "M" -> "m" [] c = "N" -> "n" [] c = "O" -> "o" [] c = "P" -> "p"
    [] c = "Q" -> "q" [] c = "R" -> "r" [] c = "S" -> "s" [] c = "T" -> "t"
    [] c = "U" -> "u" [] c = "V" -> "v" [] c = "W" -> "w" [] c = "X" -> "x"
    [] c = "Y" -> "y" [] c = "Z" -> "z" [] OTHER -> c

RECURSIVE ToLowerCase(_)
\* String.prototype.toLowerCase
ToLowerCase(s) ==
  IF Len(s) = 0 THEN ""
  ELSE LowerChar(SubSeq(s, 1, 1)) \o ToLowerCase(SubSeq(s, 2, Len(s)))

\* String.prototype.includes
Includes(s, k) ==
  \E i \in 1..(Len(s) + 1) :
    /\ i + Len(k) - 1 <= Len(s)
    /\ SubSeq(s, i, i + Len(k) - 1) = k

\* A value returned, or an exception thrown.
Return(x) == [ok |-> TRUE, val |-> x, err |-> ""]
Throw(message) == [ok |-> FALSE, val |-> Undefined, err |-> message]

(***************************************************************************)
(* The shared mock data and the three helper functions (lines 26-67).      *)
(***************************************************************************)
\* The arrows of the account answer are written "->" here.
mockAnswers ==
  [billing |-> "For billing issues, please visit billing.company.com or call 1-800-BILLING. Our billing team is available Mon-Fri 9am-5pm EST.",
   technical |-> "For technical issues: (1) Restart the application. (2) Clear your browser cache. (3) If the issue persists, uninstall and reinstall the app.",
   account |-> "To reset your account: Go to Settings -> Security -> Reset Account. You will receive an email within 5 minutes.",
   general |-> "For general inquiries, please contact support@company.com. We aim to respond within 24 hours."]

\* Object.keys(mockAnswers): the keys in insertion order.
mockAnswersKeys == <<"billing", "technical", "account", "general">>

\* FindKey with findLast in place of find: the last matching key wins.
FindKeyLast(keys, lowered) ==
  LET hits == {i \in 1..Len(keys) : Includes(lowered, keys[i])}
  IN  IF hits = {} THEN ""
      ELSE keys[CHOOSE i \in hits : \A j \in hits : i >= j]

\* Array.prototype.find with the predicate key => lowered.includes(key): the
\* first element that satisfies it, or "" for undefined.
FindKey(keys, lowered) ==
  LET hits == {i \in 1..Len(keys) : Includes(lowered, keys[i])}
  IN  IF hits = {} THEN ""
      ELSE keys[CHOOSE i \in hits : \A j \in hits : i <= j]

\* searchKnowledgeBase(query), for a query that is a string.
searchKnowledgeBase(query) ==
  LET matchedKey == FindKey(mockAnswersKeys, ToLowerCase(query))
  IN  IF matchedKey # "" THEN mockAnswers[matchedKey] ELSE mockAnswers.general


mockCustomers ==
  [C001 |-> Obj([name |-> "Alice Johnson", plan |-> "Premium", memberSince |-> "2021-03-15", openTickets |-> 2]),
   C002 |-> Obj([name |-> "Bob Smith", plan |-> "Basic", memberSince |-> "2023-07-01", openTickets |-> 0]),
   C003 |-> Obj([name |-> "Carol White", plan |-> "Premium", memberSince |-> "2020-01-10", openTickets |-> 1])]

UnknownCustomer ==
  Obj([name |-> "Unknown Customer", plan |-> "N/A", memberSince |-> "N/A", openTickets |-> 0])

\* getCustomerData(customerId): the property read coerces its key to a string.
getCustomerData(customerId) ==
  OrElse(GetProp(mockCustomers, ToStr(customerId)), UnknownCustomer)

\* new Date(ms).toISOString(), for the first second of the epoch.
ToISOString(ms) ==
  "1970-01-01T00:00:00."
    \o (IF ms < 10 THEN "00" ELSE IF ms < 100 THEN "0" ELSE "")
    \o ToString(ms) \o "Z"

\* `TKT-${Date.now()}`
TicketId(ms) == "TKT-" \o ToString(ms)

\* Logging that leaves out a ticket id the console already shows.
EmitTicketOnce(log, ticketId) ==
  IF \E i \in 1..Len(log) : log[i] = ticketId THEN log ELSE Append(log, ticketId)

\* console.log(`[Ticket Created] ${ticketId}`) (line 61), which comes before
\* the line that can throw.
EmitTicket(log, ticketId) == Append(log, ticketId)

\* logInteraction(customerId, category, resolution) at clock value ms: only
\* resolution.substring can throw.
logInteraction(customerId, category, resolution, ms) ==
  IF resolution.t # "string"
  THEN Throw(IF resolution.t \in {"undefined", "null"}
             THEN "Cannot read properties of " \o resolution.t \o " (reading 'substring')"
             ELSE "resolution.substring is not a function")
  ELSE Return(Str("Interaction logged successfully. Ticket ID: " \o TicketId(ms)
                  \o ". Timestamp: " \o ToISOString(ms)))

(***************************************************************************)
(* The tools registered with the MCP server (lines 72-110).                *)
(***************************************************************************)
RegisteredTools == {"search_knowledge_base", "get_customer_data", "log_interaction"}

\* The input schema of each: its required fields, every one a z.string().
Schema ==
  [search_knowledge_base |-> {"query"},
   get_customer_data |-> {"customerId"},
   log_interaction |-> {"customerId", "category", "resolution"}]

\* The body names a registered tool, and its arguments satisfy the schema.
NamesRegistered(body) == body.name.t = "string" /\ body.name.v \in RegisteredTools
ValidArgs(body) ==
  /\ NamesRegistered(body)
  /\ body.arguments.t = "object"
  /\ \A f \in Schema[body.name.v] :
       f \in DOMAIN body.arguments.v /\ body.arguments.v[f].t = "string"

(***************************************************************************)
(* HTTP responses.  res.json serialises its argument with JSON.stringify,  *)
(* which leaves out a property whose value is undefined or a function.     *)
(***************************************************************************)
NoResponse ==
  [status |-> 0, success |-> FALSE, hasResult |-> FALSE, result |-> Undefined, error |-> ""]

JsonSuccess(status, result) ==
  LET kept == result.t \notin {"undefined", "function"}
  IN  [status |-> status, success |-> TRUE, hasResult |-> kept,
       result |-> IF kept THEN result ELSE Undefined, error |-> ""]

JsonFailure(status, message) ==
  [status |-> status, success |-> FALSE, hasResult |-> FALSE, result |-> Undefined,
   error |-> message]

(***************************************************************************)
(* POST /tool (lines 143-177).                                             *)
(***************************************************************************)
\* args.<field>: a TypeError when args is undefined or null.
ReadArg(args, field) ==
  IF args.t \in {"undefined", "null"}
  THEN Throw("Cannot read properties of " \o args.t \o " (reading '" \o field \o "')")
  ELSE Return(IF args.t = "object" THEN GetProp(args.v, field) ELSE Undefined)

\* Lines 149-153.
DirectSearch(args) ==
  LET read == ReadArg(args, "query")
      query == OrElse(read.val, Str(""))
  IN  IF ~read.ok THEN read
      ELSE IF query.t # "string" THEN Throw("query.toLowerCase is not a function")
      ELSE Return(Str(searchKnowledgeBase(query.v)))

\* Lines 155-159.
DirectCustomer(args) ==
  LET read == ReadArg(args, "customerId")
  IN  IF ~read.ok THEN read
      ELSE Return(getCustomerData(OrElse(read.val, Str(""))))

\* A destructuring default: it replaces undefined only.
Default(x, d) == IF x.t = "undefined" THEN d ELSE x

\* Lines 161-165.
DirectLog(args, ms) ==
  LET read == ReadArg(args, "customerId")
  IN  IF ~read.ok
      THEN Throw("Cannot destructure property 'customerId' of 'args' as it is " \o args.t \o ".")
      ELSE logInteraction(Default(read.val, Str("")),
                          Default(ReadArg(args, "category").val, Str("")),
                          Default(ReadArg(args, "resolution").val, Str("")), ms)

\* name === literal
StrictEq(x, literal) == x.t = "string" /\ x.v = literal

\* UnknownToolError with a list that misses the tool registered last.
UnknownToolErrorStale(name) ==
  "Unknown tool: " \o ToStr(name)
    \o ". Available tools: search_knowledge_base, get_customer_data"

\* The error of lines 168-171.
UnknownToolError(name) ==
  "Unknown tool: " \o ToStr(name)
    \o ". Available tools: search_knowledge_base, get_customer_data, log_interaction"

\* The handler of POST /tool for req.body = body at clock value ms.
DirectTool(body, ms) ==
  LET name == body.name
      args == body.arguments
      outcome ==
        CASE StrictEq(name, "search_knowledge_base") -> DirectSearch(args)
          [] StrictEq(name, "get_customer_data") -> DirectCustomer(args)
          [] StrictEq(name, "log_interaction") -> DirectLog(args, ms)
          [] OTHER -> Return(Undefined)
      known == \/ StrictEq(name, "search_knowledge_base")
               \/ StrictEq(name, "get_customer_data")
               \/ StrictEq(name, "log_interaction")
  IN  IF ~known
      THEN JsonFailure(400, UnknownToolError(name))
      ELSE IF outcome.ok THEN JsonSuccess(200, outcome.val)
      ELSE JsonFailure(500, outcome.err)

(***************************************************************************)
(* The request bodies POST /tool is tried with.                            *)
(***************************************************************************)
\* The objects that carry any subset of `fields`, each with a value of `values`.
ObjectsOver(fields, values) ==
  {Obj(f) : f \in UNION {[S -> values] : S \in SUBSET fields}}

QueryValues ==
  {Str(""), Str("asdf"), Str("I have a BILLING question"),
   Str("technical account"), Num("0"), Num("123"), Null}

CustomerIdValues ==
  {Str(""), Str("C001"), Str("C003"), Str("C999"), Str("constructor"),
   Str("__proto__"), Num("123"), Null}

LogValues == {Str(""), Str("refund issued"), Num("5")}

OtherNames == {Str("nonexistent"), Str("SEARCH_KNOWLEDGE_BASE"), Str("toString"),
               Num("5"), Undefined, Null}

ToolBodies ==
  {[name |-> Str("search_knowledge_base"), arguments |-> a] :
     a \in {Undefined, Null} \cup ObjectsOver({"query"}, QueryValues)}
  \cup
  {[name |-> Str("get_customer_data"), arguments |-> a] :
     a \in {Undefined, Null} \cup ObjectsOver({"customerId"}, CustomerIdValues)}
  \cup
  {[name |-> Str("log_interaction"), arguments |-> a] :
     a \in {Undefined, Null}
           \cup ObjectsOver({"customerId", "category", "resolution"}, LogValues)}
  \cup
  {[name |-> n, arguments |-> a] :
     n \in OtherNames,
     a \in {Undefined, Null, Obj(NoFields), Obj([query |-> Str("asdf")])}}

\* One request of each outcome: three successes, an unknown tool, two throws.
ProbeBodies ==
  {[name |-> Str("search_knowledge_base"), arguments |-> Obj([query |-> Str("asdf")])],
   [name |-> Str("get_customer_data"), arguments |-> Obj([customerId |-> Str("C001")])],
   [name |-> Str("log_interaction"), arguments |-> Obj(NoFields)],
   [name |-> Str("nonexistent"), arguments |-> Obj(NoFields)],
   [name |-> Str("search_knowledge_base"), arguments |-> Undefined],
   [name |-> Str("log_interaction"), arguments |-> Obj([resolution |-> Num("5")])]}

NoBody == [name |-> Undefined, arguments |-> Undefined]

\* The request reaches the call of logInteraction (line 163): it names the
\* tool and its arguments can be destructured.
ReachesLog(body) ==
  StrictEq(body.name, "log_interaction") /\ body.arguments.t \notin {"undefined", "null"}

\* PostTool routed through the session store: refused while no session is live.
PostToolViaSession(body) ==
  /\ ReachesLog(body) => logCalls < MaxTickets
  /\ toolReq' = body
  /\ toolResp' = IF DOMAIN transports = {}
                 THEN JsonFailure(400, "Unknown session ID. Please reconnect via /sse first.")
                 ELSE DirectTool(body, now)
  /\ toolAt' = now
  /\ toolStoreAt' = DOMAIN transports
  /\ toolAgain' = /\ toolResp # NoResponse
                  /\ body = toolReq
                  /\ now = toolAt
                  /\ DOMAIN transports # toolStoreAt
  /\ ticketLog' = IF ReachesLog(body) THEN EmitTicket(ticketLog, TicketId(now))
                  ELSE ticketLog
  /\ logCalls' = IF ReachesLog(body) THEN logCalls + 1 ELSE logCalls
  /\ UNCHANGED <<now, mcpVars, sessVars, kbVars>>

\* One POST /tool request, handled to its response.
PostTool(body) ==
  /\ ReachesLog(body) => logCalls < MaxTickets
  /\ toolReq' = body
  /\ toolResp' = DirectTool(body, now)
  /\ toolAt' = now
  /\ toolStoreAt' = DOMAIN transports
  /\ toolAgain' = /\ toolResp # NoResponse
                  /\ body = toolReq
                  /\ now = toolAt
                  /\ DOMAIN transports # toolStoreAt
  /\ ticketLog' = IF ReachesLog(body) THEN EmitTicket(ticketLog, TicketId(now))
                  ELSE ticketLog
  /\ logCalls' = IF ReachesLog(body) THEN logCalls + 1 ELSE logCalls
  /\ UNCHANGED <<now, mcpVars, sessVars, kbVars>>

(***************************************************************************)
(* The tools of the MCP server (lines 72-110): server.tool(name, schema,   *)
(* callback) registers a callback that the server runs for a call of that  *)
(* name whose arguments satisfy the schema.                                *)
(***************************************************************************)
\* The callbacks of lines 75-79, 88-92 and 105-109: the text of the content.
McpCallback(name, args, ms) ==
  CASE name = "search_knowledge_base" -> Return(Str(searchKnowledgeBase(args.query.v)))
    [] name = "get_customer_data" -> Return(getCustomerData(args.customerId))
    [] OTHER -> logInteraction(args.customerId, args.category, args.resolution, ms)

\* A tool call on the MCP server.  The status stands for the outcome: 200 a
\* result, 400 a call the server refuses, 500 a callback that threw.  The
\* customer record is carried as JSON.stringify writes it.
McpToolCall(body, ms) ==
  IF ~NamesRegistered(body) THEN JsonFailure(400, "unknown tool")
  ELSE IF ~ValidArgs(body) THEN JsonFailure(400, "invalid arguments")
  ELSE LET outcome == McpCallback(body.name.v, body.arguments.v, ms)
       IN  IF outcome.ok THEN JsonSuccess(200, outcome.val)
           ELSE JsonFailure(500, outcome.err)

\* The call runs the callback of log_interaction (line 107).
McpReachesLog(body) == StrictEq(body.name, "log_interaction") /\ ValidArgs(body)

\* One tool call on the MCP server, handled to its result.
CallTool(body) ==
  /\ McpReachesLog(body) => logCalls < MaxTickets
  /\ mcpReq' = body
  /\ mcpResp' = McpToolCall(body, now)
  /\ mcpAt' = now
  /\ ticketLog' = IF McpReachesLog(body) THEN EmitTicket(ticketLog, TicketId(now))
                  ELSE ticketLog
  /\ logCalls' = IF McpReachesLog(body) THEN logCalls + 1 ELSE logCalls
  /\ UNCHANGED <<now, toolReq, toolResp, toolAt, toolStoreAt, toolAgain, sessVars, kbVars>>

\* The clock advances.
Tick ==
  /\ now < MaxClock
  /\ now' = now + 1
  /\ UNCHANGED <<toolReq, toolResp, toolAt, toolStoreAt, toolAgain, ticketLog,
                 logCalls, mcpVars, sessVars, kbVars>>

(***************************************************************************)
(* The streaming sessions (lines 115-137) and GET /health (lines 182-195). *)
(***************************************************************************)
\* Delete on a list of entries, as splice(indexOf(k), 1): for an absent k the
\* index is -1 and the last entry goes.
DeleteSplice(f, k) ==
  IF k \in DOMAIN f \/ DOMAIN f = {}
  THEN [y \in DOMAIN f \ {k} |-> f[y]]
  ELSE LET last == CHOOSE y \in DOMAIN f : TRUE
       IN  [y \in DOMAIN f \ {last} |-> f[y]]

\* f with key k set to x, and with key k deleted.
Put(f, k, x) == [y \in DOMAIN f \cup {k} |-> IF y = k THEN x ELSE f[y]]
Delete(f, k) == [y \in DOMAIN f \ {k} |-> f[y]]

\* Session ids that are not fresh: every transport gets the same one.
UuidReused(n) == "uuid-1"

\* The n-th sessionId: the transport's constructor draws a random UUID, which
\* is a fresh string.
Uuid(n) == "uuid-" \o ToString(n)

\* new SSEServerTransport("/messages", res)
Transport(id) == [t |-> "transport", v |-> id]

\* Object.keys(transports).length, the activeSessions of GET /health.
ActiveSessions == Cardinality(DOMAIN transports)

\* What becomes of an exception that leaves an async route handler, which the
\* handlers do not catch: the framework answers 500 (Express 5 passes the
\* rejection to its error handler), or nobody answers (Express 4 leaves the
\* rejection unhandled).
EscapeOutcomes == {"error500", "unanswered"}

\* GetSse with the close listener registered only after the await: a close
\* that comes first finds no listener.
GetSseNoListener ==
  /\ Cardinality(DOMAIN sse) < MaxSessions
  /\ LET id == "uuid-" \o ToString(Cardinality(DOMAIN sse) + 1)
     IN  /\ transports' = [y \in DOMAIN transports \cup {id} |->
                             IF y = id THEN [t |-> "transport", v |-> id]
                             ELSE transports[y]]
         /\ sse' = [y \in DOMAIN sse \cup {id} |->
                      IF y = id
                      THEN [phase |-> "connecting", resp |-> "pending",
                            conn |-> "live", listener |-> FALSE,
                            again |-> FALSE, pending |-> 0, removals |-> 0]
                      ELSE sse[y]]
  /\ UNCHANGED <<reply, toolVars, kbVars>>

GetSseStoreLate ==
  /\ Cardinality(DOMAIN sse) < MaxSessions
  /\ LET id == "uuid-" \o ToString(Cardinality(DOMAIN sse) + 1)
     IN  /\ transports' = transports
         /\ sse' = [y \in DOMAIN sse \cup {id} |->
                      IF y = id
                      THEN [phase |-> "connecting", resp |-> "pending",
                            conn |-> "live", listener |-> TRUE,
                            again |-> FALSE, pending |-> 0, removals |-> 0]
                      ELSE sse[y]]
  /\ UNCHANGED <<reply, toolVars, kbVars>>

\* GET /sse up to its await (lines 118-125): the transport is stored under its
\* fresh sessionId, the close listener is registered, server.connect is begun.
GetSse ==
  /\ Cardinality(DOMAIN sse) < MaxSessions
  /\ LET id == Uuid(Cardinality(DOMAIN sse) + 1)
     IN  /\ transports' = Put(transports, id, Transport(id))
         /\ sse' = Put(sse, id, [phase |-> "connecting", resp |-> "pending",
                                 conn |-> "live", listener |-> TRUE,
                                 again |-> FALSE, pending |-> 0, removals |-> 0])
  /\ UNCHANGED <<reply, toolVars, kbVars>>

\* await server.connect(transport) resolves (line 125): the transport has
\* started the event stream.
ConnectResolve(id) ==
  /\ id \in DOMAIN sse
  /\ sse[id].phase = "connecting"
  /\ sse' = [sse EXCEPT ![id].phase = "open", ![id].resp = "stream"]
  /\ UNCHANGED <<transports, reply, toolVars, kbVars>>

\* await server.connect(transport) rejects (line 125): the exception leaves
\* the handler.
ConnectReject(id) ==
  /\ id \in DOMAIN sse
  /\ sse[id].phase = "connecting"
  /\ \E outcome \in EscapeOutcomes :
       sse' = [sse EXCEPT ![id].phase = "failed", ![id].resp = outcome]
  /\ UNCHANGED <<transports, reply, toolVars, kbVars>>

\* The underlying connection closes, by either party: res emits 'close'.
ConnClose(id) ==
  /\ id \in DOMAIN sse
  /\ sse[id].conn = "live"
  /\ sse' = [sse EXCEPT ![id].conn = "closed", ![id].pending = 1]
  /\ UNCHANGED <<transports, reply, toolVars, kbVars>>

\* Termination is signalled once more: 'close' is emitted again on res.  An
\* emission runs its listeners before it returns, so the earlier one has been
\* handled.
CloseAgain(id) ==
  /\ id \in DOMAIN sse
  /\ sse[id].conn = "closed"
  /\ sse[id].pending = 0
  /\ sse' = [sse EXCEPT ![id].again = TRUE, ![id].pending = 1]
  /\ UNCHANGED <<transports, reply, toolVars, kbVars>>

\* OnClose resetting the whole store in place of deleting one key.
OnCloseClearsAll(id) ==
  /\ id \in DOMAIN sse
  /\ sse[id].listener
  /\ sse[id].pending > 0
  /\ transports' = NoFields
  /\ sse' = [sse EXCEPT ![id].pending = @ - 1,
                        ![id].removals = IF id \in DOMAIN transports THEN @ + 1 ELSE @]
  /\ UNCHANGED <<reply, toolVars, kbVars>>

\* The listener of lines 121-124 runs for one emitted 'close'.
OnClose(id) ==
  /\ id \in DOMAIN sse
  /\ sse[id].listener
  /\ sse[id].pending > 0
  /\ transports' = Delete(transports, id)
  /\ sse' = [sse EXCEPT ![id].pending = @ - 1,
                        ![id].removals = IF id \in DOMAIN transports THEN @ + 1 ELSE @]
  /\ UNCHANGED <<reply, toolVars, kbVars>>

NoReply ==
  [endpoint |-> "", sessionId |-> Undefined, live |-> FALSE, status |-> 0,
   error |-> "", via |-> "", activeSessions |-> 0]

\* The values of req.query.sessionId POST /messages is tried with.
SessionIdParams ==
  {Undefined, Str("never-issued"), Str("constructor"), Str("__proto__")}
    \cup {Str(Uuid(n)) : n \in 1..MaxSessions}

\* POST /messages (lines 128-137) with req.query.sessionId = sessionId.  A
\* transport answers the post itself; anything else that is truthy has no
\* handlePostMessage, and calling it throws a TypeError.
PostMessages(sessionId) ==
  LET key == ToStr(sessionId)
      transport == GetProp(transports, key)
      asked == [NoReply EXCEPT !.endpoint = "/messages", !.sessionId = sessionId,
                               !.live = key \in DOMAIN transports]
  IN  /\ IF Truthy(transport)
         THEN IF transport.t = "transport"
              THEN reply' = [asked EXCEPT !.status = 202, !.via = transport.v]
              ELSE \E outcome \in EscapeOutcomes :
                     reply' = [asked EXCEPT
                                 !.status = IF outcome = "error500" THEN 500 ELSE 0,
                                 !.error = "transport.handlePostMessage is not a function"]
         ELSE reply' = [asked EXCEPT
                          !.status = 400,
                          !.error = "Unknown session ID. Please reconnect via /sse first."]
      /\ UNCHANGED <<transports, sse, toolVars, kbVars>>

\* GET /health (lines 182-195).
GetHealth ==
  /\ reply' = [NoReply EXCEPT !.endpoint = "/health", !.status = 200,
                              !.activeSessions = ActiveSessions]
  /\ UNCHANGED <<transports, sse, toolVars, kbVars>>

(***************************************************************************)
(* searchKnowledgeBase on its own, over queries built from fragments.      *)
(***************************************************************************)
Fragments ==
  {"billing", "BILLING", "Bill", "ing", "technical", "Technical", "account",
   "general", " ", "asdf"}

RECURSIVE QueriesOf(_)
\* The concatenations of at most n fragments.
QueriesOf(n) ==
  IF n = 0 THEN {""}
  ELSE QueriesOf(n - 1) \cup {q \o f : q \in QueriesOf(n - 1), f \in Fragments}

Queries == QueriesOf(MaxFragments)

\* One call searchKnowledgeBase(query).
Search(query) ==
  /\ kbQuery' = query
  /\ kbResult' = searchKnowledgeBase(query)
  /\ UNCHANGED <<sessVars, toolVars>>

(***************************************************************************)
(* Specifications.                                                         *)
(***************************************************************************)
Init ==
  /\ transports = NoFields
  /\ sse = NoFields
  /\ reply = NoReply
  /\ now = 0
  /\ toolReq = NoBody
  /\ toolResp = NoResponse
  /\ toolAt = 0
  /\ toolStoreAt = {}
  /\ toolAgain = FALSE
  /\ ticketLog = <<>>
  /\ logCalls = 0
  /\ mcpReq = NoBody
  /\ mcpResp = NoResponse
  /\ mcpAt = 0
  /\ kbQuery = ""
  /\ kbResult = ""

SessionIds == {Uuid(n) : n \in 1..MaxSessions}

\* The session layer.
Next ==
  \/ GetSse
  \/ \E id \in SessionIds : ConnectResolve(id)
  \/ \E id \in SessionIds : ConnectReject(id)
  \/ \E id \in SessionIds : ConnClose(id)
  \/ \E id \in SessionIds : CloseAgain(id)
  \/ \E id \in SessionIds : OnClose(id)
  \/ \E sessionId \in SessionIdParams : PostMessages(sessionId)
  \/ GetHealth

Spec == Init /\ [][Next]_vars

\* Node's event loop runs the listeners of every emitted event.
FairSpec == Spec /\ \A id \in SessionIds : WF_vars(OnClose(id))

\* The direct endpoint, over every request body.
ToolNext ==
  \/ \E body \in ToolBodies : PostTool(body)
  \/ Tick

ToolSpec == Init /\ [][ToolNext]_vars

\* The direct endpoint while sessions come and go.
FrameNext ==
  \/ \E body \in ProbeBodies : PostTool(body)
  \/ Tick
  \/ GetSse
  \/ \E id \in SessionIds : ConnClose(id)
  \/ \E id \in SessionIds : OnClose(id)

FrameSpec == Init /\ [][FrameNext]_vars

\* The same requests on both invocation paths.
PathNext ==
  \/ \E body \in ProbeBodies : PostTool(body)
  \/ \E body \in ProbeBodies : CallTool(body)
  \/ Tick

PathSpec == Init /\ [][PathNext]_vars

\* searchKnowledgeBase alone.
KbNext == \E query \in Queries : Search(query)

KbSpec == Init /\ [][KbNext]_vars

(***************************************************************************)
(* Properties.                                                             *)
(***************************************************************************)
UnknownSessionError == "Unknown session ID. Please reconnect via /sse first."

\* C1: every POST /messages whose sessionId is not the id of a live session
\* (absent, never issued, or closed) is answered 400 with the 'Unknown session
\* ID' error, and leaves the session store as it was.
C1_UnknownSessionAnswered400 ==
  [][(reply' # reply /\ reply'.endpoint = "/messages" /\ ~reply'.live)
       => /\ reply'.status = 400
          /\ reply'.error = UnknownSessionError
          /\ transports' = transports]_vars

\* The step in which GET /sse accepts the connection of session id.
Accepted(id) == id \notin DOMAIN sse /\ id \in DOMAIN sse'
\* The step in which the close listener of session id runs, and runs first.
ListenerRan(id) == id \in DOMAIN sse /\ sse'[id].pending < sse[id].pending
FirstListenerRun(id) == ListenerRan(id) /\ ~sse[id].again
\* The entries of the sessions other than id are the same after the step.
OthersKept(id) ==
  /\ DOMAIN transports' \ {id} = DOMAIN transports \ {id}
  /\ \A k \in DOMAIN transports \ {id} : transports'[k] = transports[k]

\* C2: activeSessions, as GET /health reports it, goes up by exactly one when
\* a GET /sse connection is accepted and down by exactly one when that
\* connection's close is handled; no other session's entry changes.
C2_ActiveSessionsByOne ==
  [][/\ \A id \in SessionIds :
          /\ Accepted(id) => ActiveSessions' = ActiveSessions + 1 /\ OthersKept(id)
          /\ FirstListenerRun(id) => ActiveSessions' = ActiveSessions - 1 /\ OthersKept(id)
     /\ (reply' # reply /\ reply'.endpoint = "/health")
          => reply'.activeSessions = ActiveSessions']_vars

\* One session has closed and been removed, another is live, and GET /health
\* has reported the one.
C2_Witness ==
  /\ \E id \in DOMAIN sse : sse[id].removals = 1 /\ id \notin DOMAIN transports
  /\ reply.endpoint = "/health"
  /\ reply.activeSessions = 1
  /\ ActiveSessions = 1

\* C3: once the connection of a session has closed, the session is eventually
\* absent from the store, whatever server.connect has done by then.
C3_CloseLeadsToRemoval ==
  \A id \in SessionIds :
    (id \in DOMAIN sse /\ sse[id].conn = "closed") ~> (id \notin DOMAIN transports)

\* A session closed while server.connect was pending and one closed after it
\* failed have both been removed.
C3_Witness ==
  /\ \E id \in DOMAIN sse :
       sse[id].conn = "closed" /\ sse[id].phase = "connecting" /\ id \notin DOMAIN transports
  /\ \E id \in DOMAIN sse :
       sse[id].conn = "closed" /\ sse[id].phase = "failed" /\ id \notin DOMAIN transports

\* C4: cleanup is idempotent: the first run of a session's close listener
\* removes its entry, every later run leaves the store as it is, the entry is
\* removed exactly once, and no run removes another session's entry.
C4_CleanupIdempotent ==
  [][\A id \in SessionIds :
       ListenerRan(id) =>
         /\ OthersKept(id)
         /\ id \notin DOMAIN transports'
         /\ sse'[id].removals = 1
         /\ ~FirstListenerRun(id) => transports' = transports]_vars

\* The close of one session was signalled twice and handled twice, it was
\* removed once, and the other session is still in the store.
C4_Witness ==
  /\ \E id \in DOMAIN sse :
       sse[id].again /\ sse[id].pending = 0 /\ sse[id].removals = 1
  /\ ActiveSessions = 1

\* A POST /tool request has been answered.
ToolAnswered == toolReq # NoBody

\* C5: a POST /tool request that names a registered tool and whose arguments
\* are missing, lack a required field or carry one of the wrong type is
\* answered 400 with {success: false, error}, never 200 or 500.
C5_InvalidInputAnswered400 ==
  (ToolAnswered /\ NamesRegistered(toolReq) /\ ~ValidArgs(toolReq))
    => /\ toolResp.status = 400
       /\ ~toolResp.success
       /\ toolResp.error # ""

\* C6: a POST /tool request whose name is not a registered tool is answered
\* 400 with {success: false, error}, the error listing every registered tool,
\* whatever its arguments; no handler's result is in the answer.
C6_UnknownToolAnswered400 ==
  (ToolAnswered /\ ~NamesRegistered(toolReq))
    => /\ toolResp.status = 400
       /\ ~toolResp.success
       /\ ~toolResp.hasResult
       /\ \A tool \in RegisteredTools : Includes(toolResp.error, tool)

\* An unregistered name without arguments has been answered 400.
C6_Witness ==
  /\ toolReq = [name |-> Str("nonexistent"), arguments |-> Undefined]
  /\ toolResp.status = 400

\* C7: a POST /tool request that names a registered tool and whose required
\* fields are all strings is answered 200 with {success: true, result}.
C7_ValidArgsAnswered200 ==
  (ToolAnswered /\ ValidArgs(toolReq))
    => /\ toolResp.status = 200
       /\ toolResp.success
       /\ toolResp.hasResult

\* The variables a POST /tool request writes.
toolHistory == <<toolReq, toolResp, toolAt, toolStoreAt, toolAgain>>

\* C8: POST /tool leaves the session store as it is, and answers a request
\* as it answered the same request before, whatever sessions were live then.
C8_ToolIgnoresSessions ==
  [][toolHistory' # toolHistory
       => /\ transports' = transports
          /\ sse' = sse
          /\ (ToolAnswered /\ toolReq' = toolReq /\ toolAt' = toolAt)
               => toolResp' = toolResp]_vars

\* The same request has been answered twice, under different session stores,
\* the second time with sessions live.
C8_Witness == toolAgain /\ toolStoreAt # {} /\ toolResp.status = 200

\* C9: every request that fails is answered: a POST /tool, a POST /messages
\* and a GET /sse that ran into a failure each have an error response.
C9_EveryFailureAnswered ==
  /\ ToolAnswered => toolResp.status # 0
  /\ reply.endpoint = "/messages" => reply.status # 0
  /\ \A id \in DOMAIN sse : sse[id].phase = "failed" => sse[id].resp = "error500"

\* C10: searchKnowledgeBase returns the answer of the first of billing,
\* technical, account, general that the lowercased query contains, and the
\* general answer when it contains none.
C10_FirstKeyWins ==
  kbResult # "" =>
    LET lowered == ToLowerCase(kbQuery)
    IN  kbResult =
          IF Includes(lowered, "billing") THEN mockAnswers.billing
          ELSE IF Includes(lowered, "technical") THEN mockAnswers.technical
          ELSE IF Includes(lowered, "account") THEN mockAnswers.account
          ELSE mockAnswers.general

\* A query holding two keys, the later one first in the text and in upper
\* case, got the answer of the earlier key.
C10_Witness == kbQuery = "accountBILLING" /\ kbResult = mockAnswers.billing

\* C11: get_customer_data answers every customerId string: the stored
\* record for C001, C002 and C003, and the Unknown Customer record for every
\* other string.
C11_CustomerOrSentinel ==
  (ToolAnswered /\ StrictEq(toolReq.name, "get_customer_data") /\ ValidArgs(toolReq))
    => LET customerId == toolReq.arguments.v.customerId.v
       IN  /\ toolResp.status = 200
           /\ toolResp.result =
                IF customerId \in {"C001", "C002", "C003"}
                THEN mockCustomers[customerId]
                ELSE UnknownCustomer

\* A ticket id: TKT- and then digits.
IsTicketId(s) ==
  /\ Len(s) > 4
  /\ SubSeq(s, 1, 4) = "TKT-"
  /\ \A i \in 5..Len(s) :
       SubSeq(s, i, i) \in {"0", "1", "2", "3", "4", "5", "6", "7", "8", "9"}

\* C12: every call of log_interaction writes its own ticket line, also when
\* an earlier call was made at the same millisecond, and a call with string
\* arguments returns a confirmation that holds its ticket id, TKT-<digits>.
C12_OneEntryPerCall ==
  /\ Len(ticketLog) = logCalls
  /\ \A i \in 1..Len(ticketLog) : IsTicketId(ticketLog[i])
  /\ (ToolAnswered /\ StrictEq(toolReq.name, "log_interaction") /\ ValidArgs(toolReq))
       => /\ toolResp.status = 200
          /\ toolResp.result.t = "string"
          /\ Includes(toolResp.result.v,
                      "Ticket ID: " \o ticketLog[Len(ticketLog)] \o ".")

\* Two calls at the same millisecond left two lines with the same ticket id,
\* and the second was confirmed.
C12_Witness ==
  /\ ticketLog = <<"TKT-0", "TKT-0">>
  /\ logCalls = 2
  /\ StrictEq(toolReq.name, "log_interaction")
  /\ ValidArgs(toolReq)
  /\ toolResp.status = 200

\* Where session id is in its life: NONE before GET /sse accepts it, then as
\* server.connect has fared, and CLOSED once its connection has closed.
SessionState(id) ==
  IF id \notin DOMAIN sse THEN "NONE"
  ELSE IF sse[id].conn = "closed" THEN "CLOSED"
  ELSE CASE sse[id].phase = "connecting" -> "CONNECTING"
         [] sse[id].phase = "open" -> "OPEN"
         [] OTHER -> "FAILED"

\* A removed id is not a key after the step either.
StaysRemoved(id) ==
  (id \in DOMAIN sse /\ id \notin DOMAIN transports) => id \notin DOMAIN transports'

\* C13 as claimed: each session goes CONNECTING -> OPEN -> CLOSED, its id is
\* a key of the store exactly while it is OPEN, and a removed id never becomes
\* a key again.
C13_KeyExactlyWhileOpen ==
  [][\A id \in SessionIds :
       /\ \/ SessionState(id)' = SessionState(id)
          \/ <<SessionState(id), SessionState(id)'>> \in
               {<<"NONE", "CONNECTING">>, <<"CONNECTING", "OPEN">>, <<"OPEN", "CLOSED">>}
       /\ id \in DOMAIN transports' <=> SessionState(id)' = "OPEN"
       /\ StaysRemoved(id)]_vars

\* C13 as amended: each session goes CONNECTING -> OPEN or FAILED -> CLOSED,
\* CLOSED being terminal; its id is a key of the store from the moment GET /sse
\* accepts it, whatever server.connect does, until the close listener has run
\* for the close of its connection; the entry is the session's own transport;
\* a removed id never becomes a key again.
C13_KeyFromAcceptToCleanup ==
  [][\A id \in SessionIds :
       /\ \/ SessionState(id)' = SessionState(id)
          \/ <<SessionState(id), SessionState(id)'>> \in
               {<<"NONE", "CONNECTING">>, <<"CONNECTING", "OPEN">>,
                <<"CONNECTING", "FAILED">>, <<"CONNECTING", "CLOSED">>,
                <<"OPEN", "CLOSED">>, <<"FAILED", "CLOSED">>}
       /\ id \in DOMAIN transports' <=>
            \/ SessionState(id)' \in {"CONNECTING", "OPEN", "FAILED"}
            \/ /\ SessionState(id)' = "CLOSED"
               /\ sse'[id].pending = 1
               /\ ~sse'[id].again
       /\ id \in DOMAIN transports' => transports'[id] = Transport(id)
       /\ StaysRemoved(id)]_vars

\* One session whose server.connect failed still has its entry, and one that
\* closed has been removed.
C13_Witness ==
  /\ \E id \in DOMAIN sse : SessionState(id) = "FAILED" /\ id \in DOMAIN transports
  /\ \E id \in DOMAIN sse : SessionState(id) = "CLOSED" /\ id \notin DOMAIN transports

\* C15: the two invocation paths agree: the same name and arguments, called
\* at the same clock value on the MCP server and through POST /tool, both
\* succeed or both fail, and on success carry the same result.
C15_PathsAgree ==
  (ToolAnswered /\ mcpReq = toolReq /\ mcpAt = toolAt /\ mcpResp # NoResponse)
    => /\ mcpResp.success = toolResp.success
       /\ toolResp.success => mcpResp.result = toolResp.result

\* A step that answers POST /messages?sessionId=id.
PostAnswered(id) ==
  /\ reply' # reply
  /\ reply'.endpoint = "/messages"
  /\ reply'.sessionId = Str(id)

\* C17: the entry and the close listener exist from the step that accepts the
\* connection, before server.connect has settled: while the connection of an
\* issued id is live its transport is stored, a post carrying the id reaches
\* that transport and is never answered 400, and every accepted connection
\* has its close listener, so that a close at any later point is handled.
C17_LiveIdNeverUnknown ==
  [][ /\ \A id \in DOMAIN sse' :
           /\ sse'[id].listener
           /\ sse'[id].conn = "live"
                => id \in DOMAIN transports' /\ transports'[id] = Transport(id)
      /\ \A id \in DOMAIN sse :
           (PostAnswered(id) /\ sse[id].conn = "live")
             => reply'.status # 400 /\ reply'.via = id ]_vars

\* A post is accepted while server.connect is still pending, and another
\* session that closed during its connect has been removed.
C17_Witness ==
  /\ \E id \in DOMAIN sse :
       /\ sse[id].phase = "connecting" /\ sse[id].conn = "live"
       /\ reply.endpoint = "/messages" /\ reply.sessionId = Str(id) /\ reply.via = id
  /\ \E id \in DOMAIN sse :
       /\ sse[id].phase = "connecting" /\ sse[id].conn = "closed"
       /\ sse[id].removals = 1 /\ id \notin DOMAIN transports

=============================================================================
